---- MODULE Spec2Model ----
(***************************************************************************)
(* Model of the sydney density-grid engine: scene.Create, Aggregate,      *)
(* Clear, Spread and Render (package scene) together with the colour      *)
(* mappings of package color, and the batch calls Forward and Inverse of   *)
(* the Mercator projection (package projection).                           *)
(*                                                                         *)
(* Integer widths are scaled down: uint32 is modelled with Uint32Bits     *)
(* bits and uint64 with Uint64Bits bits, so that math.MaxUint32 and       *)
(* math.MaxUint64 keep their roles and their order and (width * height)   *)
(* still fits a uint64.  float64 coordinates are modelled by integers;    *)
(* the viewports and points of the model are such that the float64        *)
(* computation of the source is exact on them.  Angles and map             *)
(* coordinates of the projection are integers in units of 1/10000.         *)
(***************************************************************************)
EXTENDS Integers, Sequences, FiniteSets

\* ------------------------------------------------------------------ bounds

\* the width of a modelled uint64, and of a uint32: half of it, as 32 is of 64
Uint64Bits == 4
Uint32Bits == Uint64Bits \div 2

\* the longest batch handed to Aggregate, the largest amount handed to Spread
MaxBatch == 2
MaxAmount == 2

MaxUint32 == (2 ^ Uint32Bits) - 1
MaxUint64 == (2 ^ Uint64Bits) - 1

\* (width, height) pairs handed to Create
Resolutions == { <<0, 0>>, <<0, 2>>, <<2, 0>>, <<1, 1>>, <<2, 2>>, <<3, 1>>, <<1, 3>> }

\* (minX, maxX, minY, maxY) handed to Create
Viewports == { <<0, 10, 0, 10>>, <<-5, 5, -5, 5>>, <<10, 10, 0, 10>>, <<10, 0, 0, 10>>,
               <<0, 10, 10, 10>>, <<0, 10, 10, 0>> }

\* the points a caller aggregates
Points == { <<0, 5>>, <<5, 10>>, <<10, 5>>, <<5, 0>>, <<9, 1>>, <<-1, 5>>, <<5, 11>> }

Batches == UNION { [1..n -> Points] : n \in 0..MaxBatch }

Amounts == 0..MaxAmount

\* ------------------------------------------------------------------ colours

NRGBA(r, g, b, a) == [R |-> r, G |-> g, B |-> b, A |-> a]

ZeroColor == NRGBA(0, 0, 0, 0)

\* ------------------------------------------------------------------ state

VARIABLES
    created,    \* a scene has been created
    width,      \* sceneStruct.width
    height,     \* sceneStruct.height
    minX,       \* sceneStruct.minX
    maxX,       \* sceneStruct.maxX
    minY,       \* sceneStruct.minY
    maxY,       \* sceneStruct.maxY
    bins,       \* sceneStruct.bins, a function on 0..len-1
    last,       \* the call that has just returned, op "none" between calls
    pre,        \* bins when that call started
    img,        \* the image Render returned
    err,        \* the error Render returned is non-nil
    prev,       \* the previous successful Render with nothing run since
    given,      \* the arguments Create was called with
    replaced,   \* that call assigned a new slice to sceneStruct.bins
    proj        \* the projection call that has just returned, op "none" between calls

vars == <<created, width, height, minX, maxX, minY, maxY, bins, last, pre, img, err, prev,
          given, replaced, proj>>

scene == <<width, height, minX, maxX, minY, maxY>>

ZeroBins(n) == [k \in 0..(n - 1) |-> 0]

\* ------------------------------------------------------------------ scene

\* index with the two tests passing x = width and y = height
indexInclusive(x, y) ==
    IF (x > width) \/ (y > height)
    THEN [idx |-> 0, ok |-> FALSE]
    ELSE [idx |-> (width * y) + x, ok |-> TRUE]

\* sceneStruct.index: the linear bin index of pixel (x, y), and whether it is valid
index(x, y) ==
    IF (x >= width) \/ (y >= height)
    THEN [idx |-> 0, ok |-> FALSE]
    ELSE [idx |-> (width * y) + x, ok |-> TRUE]

\* CreateBins with the number of bins computed as a sum
CreateBinsSum(w, h) == ZeroBins((w + h) % (2 ^ Uint64Bits))

\* Create: the bins of a new scene, make([]uint64, width64 * height64)
CreateBins(w, h) == ZeroBins((w * h) % (2 ^ Uint64Bits))

\* InBounds with the bounds the comment of Render states, minY <= y < maxY
InBoundsOpenTop(x, y) == ((x >= minX) /\ (x < maxX)) /\ ((y >= minY) /\ (y < maxY))

\* Aggregate: the test "point lies within plot bounds"
InBounds(x, y) == ((x >= minX) /\ (x < maxX)) /\ ((y > minY) /\ (y <= maxY))

\* plotX rounded to the nearest column instead of truncated
plotXRounded(x) == ((2 * ((x - minX) * width)) + (maxX - minX)) \div (2 * (maxX - minX))

\* Aggregate: uint32((x - minX) * scaleX) with scaleX = width / (maxX - minX)
plotX(x) == ((x - minX) * width) \div (maxX - minX)

\* plotY with rows counted from the bottom, as plotX counts columns from the left
plotYUnflipped(y) == ((y - minY) * height) \div (maxY - minY)

\* Aggregate: uint32((maxY - y) * scaleY) with scaleY = height / (maxY - minY)
plotY(y) == ((maxY - y) * height) \div (maxY - minY)

\* Aggregate: the new value of a bin that holds val
Increment(val) == IF val < MaxUint32 THEN val + 1 ELSE val

\* Aggregate: the body of the loop, for one point
AggregatePoint(b, p) ==
    IF InBounds(p[1], p[2])
    THEN LET i == index(plotX(p[1]), plotY(p[2]))
         IN  IF i.ok THEN [b EXCEPT ![i.idx] = Increment(b[i.idx])] ELSE b
    ELSE b

\* AggregateFrom with the loop ending one element early
RECURSIVE AggregateFromSkipLast(_, _, _)
AggregateFromSkipLast(b, data, i) ==
    IF i >= Len(data)
    THEN b
    ELSE AggregateFromSkipLast(AggregatePoint(b, data[i]), data, i + 1)

\* Aggregate: the loop over data[i], data[i + 1], ...
RECURSIVE AggregateFrom(_, _, _)
AggregateFrom(b, data, i) ==
    IF i > Len(data)
    THEN b
    ELSE AggregateFrom(AggregatePoint(b, data[i]), data, i + 1)

AggregateBins(b, data) == AggregateFrom(b, data, 1)

\* ClearBins with the loop starting at the second bin
ClearBinsSkipFirst(b) == [k \in DOMAIN b |-> IF k = 0 THEN b[k] ELSE 0]

\* Clear: every bin reset in place
ClearBins(b) == [k \in DOMAIN b |-> 0]

\* SaturatingAdd without the overflow check: the sum wraps
WrappingAdd(sum, v) == (sum + v) % (2 ^ Uint64Bits)

\* Spread: sum += bins[idxSource] in uint64, set to MaxUint64 when it wrapped
SaturatingAdd(sum, v) ==
    LET s == (sum + v) % (2 ^ Uint64Bits)
    IN  IF s < sum THEN MaxUint64 ELSE s

\* Spread: one step of the two inner loops, for the source cell (xx64, yy64)
AddCell(b, sum, xx64, yy64) ==
    IF xx64 >= 0 /\ xx64 <= MaxUint32 /\ yy64 >= 0 /\ yy64 <= MaxUint32
    THEN LET i == index(xx64, yy64)
         IN  IF i.ok THEN SaturatingAdd(sum, b[i.idx]) ELSE sum
    ELSE sum

\* Spread: the inner loops, j outermost; step k is j = k \div n - amount, i = k % n - amount
RECURSIVE SpreadSumFrom(_, _, _, _, _, _)
SpreadSumFrom(b, x, y, amount, k, sum) ==
    LET n == (2 * amount) + 1
    IN  IF k >= n * n
        THEN sum
        ELSE SpreadSumFrom(b, x, y, amount, k + 1,
                 AddCell(b, sum, x + ((k % n) - amount), y + ((k \div n) - amount)))

SpreadSum(b, x, y, amount) == SpreadSumFrom(b, x, y, amount, 0, 0)

\* Spread: the outer loops, y outermost; step k is the target y = k \div width, x = k % width
RECURSIVE SpreadLoop(_, _, _, _)
SpreadLoop(b, binsNew, amount, k) ==
    IF k >= width * height
    THEN binsNew
    ELSE LET x == k % width
             y == k \div width
             t == index(x, y)
             sum == SpreadSum(b, x, y, amount)
         IN  SpreadLoop(b, IF t.ok THEN [binsNew EXCEPT ![t.idx] = sum] ELSE binsNew,
                        amount, k + 1)

\* SpreadBins with the assignment of the new bins after the test of amount
\* instead of inside it
SpreadBinsAssignOutside(b, amount) ==
    IF amount > 0
    THEN SpreadLoop(b, ZeroBins(Cardinality(DOMAIN b)), amount, 0)
    ELSE ZeroBins(Cardinality(DOMAIN b))

\* Spread: the bins after the call
SpreadBins(b, amount) ==
    IF amount > 0
    THEN SpreadLoop(b, ZeroBins(Cardinality(DOMAIN b)), amount, 0)
    ELSE b

\* Spread: this.bins = binsNew is reached
SpreadReplaces(amount) == amount > 0

\* ------------------------------------------------------------------ colour mappings

NilMapping == [kind |-> "nil", fg |-> ZeroColor, writes |-> FALSE, result |-> "nil"]

\* color.SimpleMapping(red, green, blue)
SimpleMapping(r, g, b) ==
    [kind |-> "simple", fg |-> NRGBA(r, g, b, 255), writes |-> FALSE, result |-> "full"]

\* color.DefaultMapping()
DefaultMapping == [kind |-> "default", fg |-> ZeroColor, writes |-> FALSE, result |-> "full"]

\* a caller's own implementation of color.Mapping: it may write the slice it is
\* handed, and it returns nil, a slice of the right length or one of another length
CustomMappings ==
    { [kind |-> "custom", fg |-> ZeroColor, writes |-> w, result |-> r] :
        w \in BOOLEAN, r \in {"nil", "full", "wrong"} }

Mappings == {NilMapping, SimpleMapping(255, 0, 0), DefaultMapping} \cup CustomMappings

NilColors == [nil |-> TRUE, c |-> ZeroBins(0)]

\* simpleMappingStruct.Map
SimpleMap(fg, counts) ==
    [nil |-> FALSE, c |-> [k \in DOMAIN counts |-> IF counts[k] > 0 THEN fg ELSE ZeroColor]]

\* math.Log(float64(n)) * 10^5 rounded to the nearest integer, n = 1 .. 31
LogTable ==
    << 0, 69315, 109861, 138629, 160944, 179176, 194591, 207944, 219722, 230259,
       239790, 248491, 256495, 263906, 270805, 277259, 283321, 289037, 294444,
       299573, 304452, 309104, 313549, 317805, 321888, 325810, 329584, 333220,
       336730, 340120, 343399 >>

\* math.Round(a / b) for a >= 0, b > 0
RoundDiv(a, b) == ((2 * a) + b) \div (2 * b)

\* defaultMappingStruct.Map: the largest count
RECURSIVE MaxCountFrom(_, _, _)
MaxCountFrom(counts, k, max) ==
    IF k >= Cardinality(DOMAIN counts)
    THEN max
    ELSE MaxCountFrom(counts, k + 1, IF counts[k] > max THEN counts[k] ELSE max)

\* HeatColor with a frac that is NaN (max = 1) treated like a logarithm that is
\* not finite: the cell is left transparent
HeatColorNaNTransparent(count, max) ==
    IF max = 1
    THEN ZeroColor
    ELSE LET lc == LogTable[count]
             lm == LogTable[max]
         IN  IF 4 * lc <= lm
             THEN NRGBA(0, RoundDiv(1020 * lc, lm), 255, 255)
             ELSE IF 4 * lc <= 2 * lm
             THEN NRGBA(0, 255, RoundDiv((510 * lm) - (1020 * lc), lm), 255)
             ELSE IF 4 * lc <= 3 * lm
             THEN NRGBA(RoundDiv((1020 * lc) - (510 * lm), lm), 255, 0, 255)
             ELSE NRGBA(255, 255, RoundDiv((1020 * lc) - (765 * lm), lm), 255)

\* defaultMappingStruct.Map: the colour of a cell with count > 0 when the largest
\* count is max; frac = countLog / maxLog is NaN when max = 1, and every test fails
HeatColor(count, max) ==
    IF max = 1
    THEN NRGBA(255, 255, 255, 255)
    ELSE LET lc == LogTable[count]
             lm == LogTable[max]
         IN  IF 4 * lc <= lm
             THEN NRGBA(0, RoundDiv(1020 * lc, lm), 255, 255)
             ELSE IF 4 * lc <= 2 * lm
             THEN NRGBA(0, 255, RoundDiv((510 * lm) - (1020 * lc), lm), 255)
             ELSE IF 4 * lc <= 3 * lm
             THEN NRGBA(RoundDiv((1020 * lc) - (510 * lm), lm), 255, 0, 255)
             ELSE NRGBA(255, 255, RoundDiv((1020 * lc) - (765 * lm), lm), 255)

\* defaultMappingStruct.Map
DefaultMap(counts) ==
    LET max == MaxCountFrom(counts, 0, 0)
    IN  [nil |-> FALSE,
         c |-> [k \in DOMAIN counts |->
                   IF counts[k] = 0 THEN ZeroColor ELSE HeatColor(counts[k], max)]]

\* a custom mapping's result: nil, one colour per count (told apart by their
\* position), or a slice of another length
CustomMap(m, counts) ==
    LET n == Cardinality(DOMAIN counts)
    IN  IF m.result = "nil"
        THEN NilColors
        ELSE IF m.result = "full"
        THEN [nil |-> FALSE, c |-> [k \in 0..(n - 1) |-> NRGBA(k + 1, 0, 0, 255)]]
        ELSE [nil |-> FALSE,
              c |-> [k \in 0..((IF n = 0 THEN 1 ELSE n - 1) - 1) |-> NRGBA(k + 1, 0, 0, 255)]]

\* mapping.Map(data): the slice returned
Map(m, counts) ==
    IF m.kind = "simple" THEN SimpleMap(m.fg, counts)
    ELSE IF m.kind = "default" THEN DefaultMap(counts)
    ELSE CustomMap(m, counts)

\* mapping.Map(data): the slice handed in, after the call. data is this.bins
\* itself, not a copy; a custom mapping that writes it here caps every count at 1
MapWrites(m, counts) ==
    IF m.writes
    THEN [k \in DOMAIN counts |-> IF counts[k] > 1 THEN 1 ELSE counts[k]]
    ELSE counts

\* ------------------------------------------------------------------ Render

NilImage == [nil |-> TRUE, w |-> 0, h |-> 0, pix |-> [p \in {} |-> ZeroColor]]

\* image.NewNRGBA(image.Rect(0, 0, w, h)): every pixel the zero colour
NewNRGBA(w, h) ==
    [nil |-> FALSE, w |-> w, h |-> h,
     pix |-> [p \in (0..(w - 1)) \X (0..(h - 1)) |-> ZeroColor]]

\* RenderLoop with the loops ending one pixel early
RECURSIVE RenderLoopSkipLast(_, _, _)
RenderLoopSkipLast(image, colors, k) ==
    IF k >= (width * height) - 1
    THEN image
    ELSE LET x == k % width
             y == k \div width
             i == index(x, y)
         IN  RenderLoopSkipLast(IF i.ok
                                THEN [image EXCEPT !.pix[<<x, y>>] = colors[i.idx]]
                                ELSE image,
                                colors, k + 1)

\* Render: the loops over the rows and columns; step k is y = k \div width, x = k % width
RECURSIVE RenderLoop(_, _, _)
RenderLoop(image, colors, k) ==
    IF k >= width * height
    THEN image
    ELSE LET x == k % width
             y == k \div width
             i == index(x, y)
         IN  RenderLoop(IF i.ok
                        THEN [image EXCEPT !.pix[<<x, y>>] = colors[i.idx]]
                        ELSE image,
                        colors, k + 1)

\* Render: the image and the error for the slice the mapping returned
RenderColors(colors) ==
    IF colors.nil
    THEN [img |-> NilImage, err |-> TRUE]
    ELSE IF Cardinality(DOMAIN colors.c) # width * height
    THEN [img |-> NilImage, err |-> TRUE]
    ELSE [img |-> RenderLoop(NewNRGBA(width, height), colors.c, 0), err |-> FALSE]

\* Render(mapping): image and error
RenderResult(m, data) ==
    IF m.kind = "nil"
    THEN [img |-> NilImage, err |-> TRUE]
    ELSE RenderColors(Map(m, data))

\* ------------------------------------------------------------------ projection

\* (longitude, latitude) of the locations a caller projects, in 1/10000 rad:
\* the origin, (pi/2, pi/6), (-pi, -pi/3) and (pi/4, pi/4)
Geographics == { <<0, 0>>, <<15708, 5236>>, <<-31416, -10472>>, <<7854, 7854>> }

\* (x, y) of the map points a caller projects back, in 1/10000
Cartesians == { <<0, 0>>, <<2500, 874>>, <<-5000, -2096>>, <<0, 10000>> }

\* what a destination slice holds before the call: zero values or older results
Stale == { <<0, 0>>, <<1, 1>> }

SourcesOf(S) == UNION { [1..n -> S] : n \in 0..MaxBatch }

Destinations == UNION { [1..n -> Stale] : n \in 0..MaxBatch }

\* a / b rounded to the nearest integer, for b > 0
Nearest(a, b) == IF a >= 0 THEN ((2 * a) + b) \div (2 * b) ELSE -(((2 * (-a)) + b) \div (2 * b))

\* math.Log(math.Tan(MATH_QUARTER_PI + 0.5 * latitude)) / MATH_TWO_PI
LogTan(latitude) ==
    CASE latitude = 0 -> 0
      [] latitude = 5236 -> 874
      [] latitude = -10472 -> -2096
      [] latitude = 7854 -> 1403

\* 2.0 * math.Atan(math.Exp(MATH_TWO_PI * y)) - MATH_HALF_PI
AtanExp(y) ==
    CASE y = 0 -> 0
      [] y = 874 -> 5235
      [] y = -2096 -> -10472
      [] y = 10000 -> 15671

\* ForwardSingle: x = longitude / MATH_TWO_PI, y from the latitude
ForwardSingle(src) == <<Nearest(src[1] * 10000, 62832), LogTan(src[2])>>

\* InverseSingle: longitude = MATH_TWO_PI * x, latitude from y
InverseSingle(src) == <<Nearest(src[1] * 62832, 10000), AtanExp(src[2])>>

\* Forward: the loop over src[i], src[i + 1], ...
RECURSIVE ForwardFrom(_, _, _)
ForwardFrom(dst, src, i) ==
    IF i > Len(src)
    THEN dst
    ELSE ForwardFrom([dst EXCEPT ![i] = ForwardSingle(src[i])], src, i + 1)

\* Inverse: the loop over src[i], src[i + 1], ...
RECURSIVE InverseFrom(_, _, _)
InverseFrom(dst, src, i) ==
    IF i > Len(src)
    THEN dst
    ELSE InverseFrom([dst EXCEPT ![i] = InverseSingle(src[i])], src, i + 1)

Shorter(a, b) == IF Len(a) < Len(b) THEN a ELSE b

\* ForwardBatch with the lengths compared after the elements both slices have
\* were projected
ForwardBatchPartial(dst, src) ==
    IF Len(src) # Len(dst)
    THEN [dst |-> ForwardFrom(dst, SubSeq(src, 1, Len(Shorter(dst, src))), 1), err |-> TRUE]
    ELSE [dst |-> ForwardFrom(dst, src, 1), err |-> FALSE]

\* Forward: the destination after the call and whether the error is non-nil
ForwardBatch(dst, src) ==
    IF Len(src) # Len(dst)
    THEN [dst |-> dst, err |-> TRUE]
    ELSE [dst |-> ForwardFrom(dst, src, 1), err |-> FALSE]

\* Inverse: the destination after the call and whether the error is non-nil
InverseBatch(dst, src) ==
    IF Len(src) # Len(dst)
    THEN [dst |-> dst, err |-> TRUE]
    ELSE [dst |-> InverseFrom(dst, src, 1), err |-> FALSE]

NoProjection == [op |-> "none", src |-> << >>, dstPre |-> << >>, dst |-> << >>, err |-> FALSE]

\* ------------------------------------------------------------------ calls

NoCall == [op |-> "none", data |-> << >>, amount |-> 0, mapping |-> NilMapping]

Call(op, data, amount, mapping) ==
    [op |-> op, data |-> data, amount |-> amount, mapping |-> mapping]

NoRender == [valid |-> FALSE, mapping |-> NilMapping, img |-> NilImage]

Init ==
    /\ created = FALSE
    /\ width = 0
    /\ height = 0
    /\ minX = 0
    /\ maxX = 0
    /\ minY = 0
    /\ maxY = 0
    /\ bins = ZeroBins(0)
    /\ last = NoCall
    /\ pre = ZeroBins(0)
    /\ img = NilImage
    /\ err = FALSE
    /\ prev = NoRender
    /\ given = <<0, 0, 0, 0, 0, 0>>
    /\ replaced = FALSE
    /\ proj = NoProjection

Idle == created /\ last.op = "none"

\* scene.Create(width, height, minX, maxX, minY, maxY)
Create(w, h, x0, x1, y0, y1) ==
    /\ ~created
    /\ created' = TRUE
    /\ width' = w
    /\ height' = h
    /\ minX' = x0
    /\ maxX' = x1
    /\ minY' = y0
    /\ maxY' = y1
    /\ bins' = CreateBins(w, h)
    /\ last' = Call("Create", << >>, 0, NilMapping)
    /\ pre' = bins
    /\ given' = <<w, h, x0, x1, y0, y1>>
    /\ replaced' = TRUE
    /\ UNCHANGED <<img, err, prev, proj>>

\* scn.Aggregate(data)
Aggregate(data) ==
    /\ Idle
    /\ bins' = AggregateBins(bins, data)
    /\ last' = Call("Aggregate", data, 0, NilMapping)
    /\ pre' = bins
    /\ prev' = NoRender
    /\ replaced' = FALSE
    /\ UNCHANGED <<created, scene, img, err, given, proj>>

\* scn.Clear()
Clear ==
    /\ Idle
    /\ bins' = ClearBins(bins)
    /\ last' = Call("Clear", << >>, 0, NilMapping)
    /\ pre' = bins
    /\ prev' = NoRender
    /\ replaced' = FALSE
    /\ UNCHANGED <<created, scene, img, err, given, proj>>

\* scn.Spread(amount)
Spread(amount) ==
    /\ Idle
    /\ bins' = SpreadBins(bins, amount)
    /\ last' = Call("Spread", << >>, amount, NilMapping)
    /\ pre' = bins
    /\ prev' = NoRender
    /\ replaced' = SpreadReplaces(amount)
    /\ UNCHANGED <<created, scene, img, err, given, proj>>

\* scn.Render(mapping)
Render(m) ==
    /\ Idle
    /\ LET r == RenderResult(m, bins)
       IN  /\ img' = r.img
           /\ err' = r.err
    /\ bins' = IF m.kind = "nil" THEN bins ELSE MapWrites(m, bins)
    /\ last' = Call("Render", << >>, 0, m)
    /\ pre' = bins
    /\ replaced' = FALSE
    /\ UNCHANGED <<created, scene, prev, given, proj>>

\* the call returns: the caller keeps the image of a successful Render until it
\* calls something else, and drops the arguments
Return ==
    /\ created
    /\ last.op # "none"
    /\ last' = NoCall
    /\ pre' = ZeroBins(0)
    /\ img' = NilImage
    /\ err' = FALSE
    /\ prev' = IF last.op = "Render" /\ ~err
               THEN [valid |-> TRUE, mapping |-> last.mapping, img |-> img]
               ELSE NoRender
    /\ replaced' = FALSE
    /\ UNCHANGED <<created, scene, bins, given, proj>>

Next ==
    \/ \E r \in Resolutions, v \in Viewports : Create(r[1], r[2], v[1], v[2], v[3], v[4])
    \/ \E data \in Batches : Aggregate(data)
    \/ Clear
    \/ \E amount \in Amounts : Spread(amount)
    \/ \E m \in Mappings : Render(m)
    \/ Return

Spec == Init /\ [][Next]_vars

\* proj.Forward(dst, src)
Forward(dst, src) ==
    /\ proj.op = "none"
    /\ LET r == ForwardBatch(dst, src)
       IN  proj' = [op |-> "Forward", src |-> src, dstPre |-> dst, dst |-> r.dst,
                    err |-> r.err]
    /\ UNCHANGED <<created, scene, bins, last, pre, img, err, prev, given, replaced>>

\* proj.Inverse(dst, src)
Inverse(dst, src) ==
    /\ proj.op = "none"
    /\ LET r == InverseBatch(dst, src)
       IN  proj' = [op |-> "Inverse", src |-> src, dstPre |-> dst, dst |-> r.dst,
                    err |-> r.err]
    /\ UNCHANGED <<created, scene, bins, last, pre, img, err, prev, given, replaced>>

\* the projection call returns and the caller drops the slices
ProjectionReturn ==
    /\ proj.op # "none"
    /\ proj' = NoProjection
    /\ UNCHANGED <<created, scene, bins, last, pre, img, err, prev, given, replaced>>

NextProjection ==
    \/ \E dst \in Destinations, src \in SourcesOf(Geographics) : Forward(dst, src)
    \/ \E dst \in Destinations, src \in SourcesOf(Cartesians) : Inverse(dst, src)
    \/ ProjectionReturn

\* the projection is stateless and independent of the scene: its calls are
\* checked on their own
SpecProjection == Init /\ [][NextProjection]_vars

\* ------------------------------------------------------------------ properties

Cells == DOMAIN bins

\* the sum of all bins of b
RECURSIVE TotalFrom(_, _)
TotalFrom(b, k) == IF k >= Cardinality(DOMAIN b) THEN 0 ELSE b[k] + TotalFrom(b, k + 1)

Total(b) == TotalFrom(b, 0)

\* the viewport test as the specification words it
InViewport(p) == (minX <= p[1] /\ p[1] < maxX) /\ (minY < p[2] /\ p[2] <= maxY)

\* the number of points of data inside the viewport
NumInViewport(data) == Cardinality({i \in 1..Len(data) : InViewport(data[i])})

\* the scene has at least one bin and a proper viewport
ProperScene == width > 0 /\ height > 0 /\ minX < maxX /\ minY < maxY

\* no bin of b reaches the limit of Aggregate within n more hits
FarFromLimit(b, n) == \A k \in DOMAIN b : b[k] + n < MaxUint32

Aggregated == last.op = "Aggregate"

BinOf(p) ==
    (width * (((maxY - p[2]) * height) \div (maxY - minY)))
        + (((p[1] - minX) * width) \div (maxX - minX))

\* C2: an accepted point's bin gains exactly one when it is below the largest
\* uint64 and is left unchanged when it is at the largest uint64; no other bin
\* changes. (Stated for a batch of one point.)
C2_SaturatesAtMaxUint64 ==
    (Aggregated /\ ProperScene /\ Len(last.data) = 1 /\ InViewport(last.data[1])) =>
        LET k == BinOf(last.data[1])
        IN  bins = [pre EXCEPT ![k] = IF pre[k] < MaxUint64 THEN pre[k] + 1 ELSE pre[k]]

\* C3: Aggregate(A) then Aggregate(B), Aggregate(B) then Aggregate(A) and one
\* Aggregate of A followed by B leave the same grid, for every way of cutting
\* the batch that was aggregated into A and B.
C3_OrderIndependent ==
    Aggregated =>
        \A n \in 0..Len(last.data) :
            LET A == SubSeq(last.data, 1, n)
                B == SubSeq(last.data, n + 1, Len(last.data))
            IN  /\ AggregateBins(AggregateBins(pre, A), B) = bins
                /\ AggregateBins(AggregateBins(pre, B), A) = bins
                /\ AggregateBins(pre, B \o A) = bins

\* witness of C3: a batch of two different points that land in different bins
C3_Witness ==
    /\ Aggregated
    /\ Len(last.data) >= 2
    /\ last.data[1] # last.data[2]
    /\ Total(bins) = Total(pre) + 2
    /\ \E k \in Cells : bins[k] = pre[k] + 1

\* the sum of f over the set S
RECURSIVE SetSum(_, _)
SetSum(f, S) ==
    IF S = {} THEN 0 ELSE LET e == CHOOSE e \in S : TRUE IN f[e] + SetSum(f, S \ {e})

\* the cells of the grid within Chebyshev distance r of (x, y)
Neighbours(x, y, r) ==
    { width * yy + xx : xx \in { c \in (x - r)..(x + r) : 0 <= c /\ c < width },
                        yy \in { c \in (y - r)..(y + r) : 0 <= c /\ c < height } }

Min(a, b) == IF a < b THEN a ELSE b

Spreaded == last.op = "Spread" /\ last.amount > 0

\* C4: after Spread(r), r > 0, every cell holds the sum of the pre-spread cells
\* within Chebyshev distance r that lie inside the grid, saturated at the largest
\* uint64; a single hit of count 1 becomes a square of 1's clipped at the edges.
C4_SpreadIsBoxSum ==
    Spreaded =>
        /\ DOMAIN bins = DOMAIN pre
        /\ \A x \in 0..(width - 1), y \in 0..(height - 1) :
               bins[width * y + x]
                   = Min(MaxUint64, SetSum(pre, Neighbours(x, y, last.amount)))
        /\ \A x0 \in 0..(width - 1), y0 \in 0..(height - 1) :
               pre = [k \in DOMAIN pre |-> IF k = width * y0 + x0 THEN 1 ELSE 0] =>
                   \A x \in 0..(width - 1), y \in 0..(height - 1) :
                       bins[width * y + x]
                           = IF x - x0 <= last.amount /\ x0 - x <= last.amount
                                /\ y - y0 <= last.amount /\ y0 - y <= last.amount
                             THEN 1 ELSE 0

\* witness of C4: a spread whose sum saturates in one cell while another cell
\* lies outside the neighbourhood of a count
C4_Witness ==
    /\ Spreaded
    /\ \E k \in Cells : bins[k] = MaxUint64 /\ pre[k] < MaxUint64
    /\ \E k \in Cells : bins[k] < Total(pre) /\ bins[k] < MaxUint64

Rendered == last.op = "Render"

\* Render has a reason to fail: no mapping, a nil result, or a result whose
\* length is not width * height
MappingFails(m, data) ==
    \/ m.kind = "nil"
    \/ Map(m, data).nil
    \/ Cardinality(DOMAIN Map(m, data).c) # width * height

\* C5: Render returns an error and a nil image when the mapping is nil, returns
\* nil or returns a result of the wrong length, and then leaves the bins
\* unchanged; otherwise it returns an image and no error.
C5_RenderErrors ==
    Rendered =>
        IF MappingFails(last.mapping, pre)
        THEN err /\ img.nil /\ bins = pre
        ELSE ~err /\ ~img.nil

\* the part of C5 about what Render returns, without the bins
RenderReturns ==
    Rendered =>
        IF MappingFails(last.mapping, pre) THEN err /\ img.nil ELSE ~err /\ ~img.nil

\* C6: for any mapping, the bins after Render equal the bins before it, and two
\* consecutive successful Render calls with the same mapping return equal images.
C6_RenderKeepsBins ==
    Rendered =>
        /\ bins = pre
        /\ (prev.valid /\ prev.mapping = last.mapping /\ ~err => img = prev.img)

\* C6 for the mappings that do not write the slice they are handed, the two
\* mappings of package color among them
RenderKeepsBinsUnlessWritten ==
    (Rendered /\ ~last.mapping.writes) => bins = pre

\* C7: a successful Render returns a width x height image whose pixel (x, y) is
\* entry width * y + x of the mapping's result for the bins at the call.
C7_PixelsFollowIndex ==
    (Rendered /\ ~err) =>
        /\ ~img.nil
        /\ img.w = width
        /\ img.h = height
        /\ DOMAIN img.pix = (0..(width - 1)) \X (0..(height - 1))
        /\ \A x \in 0..(width - 1), y \in 0..(height - 1) :
               img.pix[<<x, y>>] = Map(last.mapping, pre).c[(width * y) + x]

\* witness of C7: a rendered image of more than one pixel with no two pixels alike
C7_Witness ==
    /\ Rendered
    /\ ~err
    /\ width * height > 1
    /\ \A p, q \in DOMAIN img.pix : p # q => img.pix[p] # img.pix[q]

\* C8: Clear zeroes every bin and changes nothing else, which leaves the scene
\* as Create made it, so that a later Aggregate gives what it gives on a new scene.
C8_ClearResets ==
    last.op = "Clear" =>
        /\ DOMAIN bins = DOMAIN pre
        /\ \A k \in DOMAIN bins : bins[k] = 0
        /\ <<width, height, minX, maxX, minY, maxY>> = given
        /\ bins = [k \in 0..((given[1] * given[2]) - 1) |-> 0]
        /\ \A data \in Batches :
               AggregateBins(bins, data) = AggregateBins(CreateBins(given[1], given[2]), data)

\* witness of C8: Clear of a grid that held a count above the limit of Aggregate,
\* that is after Aggregate and Spread
C8_Witness ==
    /\ last.op = "Clear"
    /\ \E k \in DOMAIN pre : pre[k] > MaxUint32

\* the arguments of Create that the specification calls invalid
Degenerate == given[3] >= given[4] \/ given[5] >= given[6] \/ given[1] = 0 \/ given[2] = 0

OnePoint == Aggregated /\ ProperScene /\ Len(last.data) = 1 /\ FarFromLimit(pre, 1)

DefaultRendered == Rendered /\ last.mapping = DefaultMapping

\* C11: the default mapping returns one colour per count; the colour is the
\* transparent zero colour exactly for the counts that are 0, and has alpha 255
\* for every count above 0, also when the largest count is 0 or 1. Render shows
\* these colours pixel by pixel.
C11_TransparentIffZero ==
    DefaultRendered =>
        LET colors == DefaultMap(pre)
        IN  /\ ~colors.nil
            /\ DOMAIN colors.c = DOMAIN pre
            /\ \A k \in DOMAIN pre :
                   /\ (colors.c[k] = ZeroColor <=> pre[k] = 0)
                   /\ (pre[k] > 0 => colors.c[k].A = 255)
            /\ ~err
            /\ \A x \in 0..(width - 1), y \in 0..(height - 1) :
                   /\ (img.pix[<<x, y>>] = ZeroColor <=> pre[(width * y) + x] = 0)
                   /\ (pre[(width * y) + x] > 0 => img.pix[<<x, y>>].A = 255)

\* witness of C11: the default mapping rendered a grid whose largest count is 1,
\* with an empty cell beside a cell of count 1
C11_Witness ==
    /\ DefaultRendered
    /\ \A k \in DOMAIN pre : pre[k] <= 1
    /\ \E k \in DOMAIN pre : pre[k] = 1
    /\ \E k \in DOMAIN pre : pre[k] = 0

Projected == proj.op \in {"Forward", "Inverse"}

\* the single-point projection the call applies
Single(src) == IF proj.op = "Forward" THEN ForwardSingle(src) ELSE InverseSingle(src)

\* C12: Forward(dst, src) and Inverse(dst, src) return an error and leave every
\* element of dst as it was when len(src) # len(dst); when the lengths are equal
\* they return no error and every dst[i] is the projection of src[i].
C12_BatchLengthCheck ==
    Projected =>
        IF Len(proj.src) # Len(proj.dstPre)
        THEN proj.err /\ proj.dst = proj.dstPre
        ELSE /\ ~proj.err
             /\ Len(proj.dst) = Len(proj.src)
             /\ \A i \in 1..Len(proj.src) : proj.dst[i] = Single(proj.src[i])

\* witness of C12: Forward has returned an error for slices of different lengths
\* that both have elements, and the destination still holds what it held
C12_Witness ==
    /\ proj.op = "Forward"
    /\ Len(proj.src) # Len(proj.dstPre)
    /\ Len(proj.src) > 0
    /\ Len(proj.dstPre) > 0
    /\ proj.err
    /\ proj.dst = proj.dstPre
    /\ proj.dst[1] # ForwardSingle(proj.src[1])

\* C13: Spread(0) leaves every bin with its value and does not replace the grid.
C13_SpreadZeroIdentity ==
    (last.op = "Spread" /\ last.amount = 0) =>
        /\ bins = pre
        /\ ~replaced

\* witness of C13: Spread(0) on a grid that holds a count beside an empty cell
C13_Witness ==
    /\ last.op = "Spread"
    /\ last.amount = 0
    /\ \E k \in DOMAIN pre : pre[k] > 0
    /\ \E k \in DOMAIN pre : pre[k] = 0
    /\ bins = pre

\* C14: once a scene is created, and whatever was called on it since, the bins
\* are width * height many, width, height and the viewport are the arguments of
\* Create, and every (x, y) that index reports as valid has x < width, y < height
\* and the index width * y + x, which is a position of the bins.
C14_GridShape ==
    created =>
        /\ DOMAIN bins = 0..((width * height) - 1)
        /\ Cardinality(DOMAIN bins) = given[1] * given[2]
        /\ <<width, height, minX, maxX, minY, maxY>> = given
        /\ \A x \in 0..MaxUint32, y \in 0..MaxUint32 :
               index(x, y).ok =>
                   /\ x < width
                   /\ y < height
                   /\ index(x, y).idx = (width * y) + x
                   /\ index(x, y).idx \in DOMAIN bins

\* witness of C14: a grid of more than one bin that Spread has replaced after
\* Aggregate counted into it
C14_Witness ==
    /\ created
    /\ last.op = "Spread"
    /\ replaced
    /\ width * height > 1
    /\ \E k \in DOMAIN bins : bins[k] > 1
    /\ index(width - 1, height - 1).ok

\* the column and the row the specification assigns to point p
ColumnOf(p) == ((p[1] - minX) * width) \div (maxX - minX)

RowOf(p) == ((maxY - p[2]) * height) \div (maxY - minY)

\* one accepted point has been aggregated into a scene with bins
OneAccepted ==
    Aggregated /\ ProperScene /\ Len(last.data) = 1 /\ InViewport(last.data[1])

\* the bins that the call changed
Changed == { k \in DOMAIN pre : bins[k] # pre[k] }

C15_SaturatedWitness ==
    /\ OneAccepted
    /\ pre[(width * RowOf(last.data[1])) + ColumnOf(last.data[1])] = MaxUint64
    /\ Changed = {}

====
